---------------------------- MODULE Spec2Model ----------------------------
(***************************************************************************)
(* The transaction-to-receipt reconciliation engine of                     *)
(* src/transaction_matcher.py: the confidence score, the batch matcher,    *)
(* the output row generator and the production/development run of main(), *)
(* and the Parsed Orders sheet writes of src/cloud_function/main.py.       *)
(*                                                                         *)
(* Conventions.  Currency amounts are decimal values with two places and   *)
(* are held in integer cents, so the score's thresholds 0.01, 1.0 and 3.0  *)
(* are 1, 100 and 300.  Dates are day ordinals (midnight-normalised);      *)
(* NoDate is the None that parse_date and _parse_order_date return.  A     *)
(* raw ledger amount is a record [sign, num] for the text of the cell:     *)
(* sign is "-" (leading minus), "(" (accounting parentheses) or "" and     *)
(* num is the number in cents, or BadNum for text float() rejects.         *)
(***************************************************************************)
EXTENDS Integers, Sequences, FiniteSets, TLC

VARIABLES
    pc,                 \* position of the harness / of main()
    score_in,           \* SpecScore: the two argument triples
    score_out,          \* SpecScore: the two returned scores
    transactions,       \* amazon_transactions handed to the matcher
    parsed_orders,      \* receipt records handed to the matcher
    match_results,      \* row number -> [items, score, status]
    used_emails,        \* the matcher's used_emails when it returned
    used_transactions,  \* the matcher's used_transactions when it returned
    output_rows,        \* generate_output_rows' result
    first_call,         \* SpecMatch: results and rows of the first call
    now,                \* the clock processed_at is read from
    ledger,             \* the Transactions sheet below its header row
    receipts,           \* the Parsed Orders sheet below its header row
    output,             \* the Processed Transactions sheet: [header, rows]
    dev_mode,           \* DEV_MODE of the run
    all_transactions,   \* main(): load_transactions' result
    new_rows,           \* write_output: the rows left after deduplication
    failures,           \* store calls that have raised so far
    consumed,           \* history: <<email_id, source_row>> written by production runs
    all_prod,           \* history: every run so far was a production run
    run,                \* history of the latest run: [output0, failed, outcome, write]
    invocations         \* SpecCloud: the cloud function's invocations

scoreVars == <<score_in, score_out>>
callVars == <<transactions, parsed_orders, match_results, used_emails,
              used_transactions, output_rows>>
storeVars == <<ledger, receipts, output>>
runVars == <<dev_mode, all_transactions, new_rows, failures, consumed, all_prod,
             run>>

cloudVars == <<invocations>>

vars == <<pc, scoreVars, callVars, first_call, now, storeVars, runVars,
          cloudVars>>

---------------------------------------------------------------------------
(* Program constants *)

NoDate == -1
BadNum == -1

DATE_MATCHING_WINDOW_DAYS == 30
AMOUNT_MATCHING_TOLERANCE == 300
CONFIDENCE_THRESHOLD_HIGH == 60
CONFIDENCE_THRESHOLD_LOW == 40

Abs(x) == IF x < 0 THEN -x ELSE x
Max(a, b) == IF a >= b THEN a ELSE b
Min(a, b) == IF a <= b THEN a ELSE b

---------------------------------------------------------------------------
(* utils.py: parsing *)

\* parse_amount: accounting parentheses or a leading minus negate; text that
\* float() rejects gives 0.0.
parse_amount(amount_value) ==
    IF amount_value.num = BadNum THEN 0
    ELSE IF amount_value.sign \in {"(", "-"} THEN -amount_value.num
    ELSE amount_value.num

\* parse_date: the day, or None when no format matches.
parse_date(date_str) == IF date_str = NoDate THEN NoDate ELSE date_str

---------------------------------------------------------------------------
(* calculate_confidence_score *)

\* The function with the hard cutoff dropped: an amount outside the
\* tolerance still earns the lowest amount tier.
calculate_confidence_score_NoCutoff(trans_amount, order_total, date_diff_days) ==
    LET amount_diff == Abs(trans_amount - order_total)
        date_score == Max(0, 20 - (date_diff_days * 3))
        bonus == IF date_diff_days = 0 THEN 10 ELSE 0
        Total(amount_score) == Min(amount_score + date_score + bonus, 100)
    IN  IF amount_diff < 1 THEN Total(50)
        ELSE IF amount_diff <= 100 THEN Total(30)
        ELSE Total(20)

\* The function with the date score not floored at 0.
calculate_confidence_score_NoFloor(trans_amount, order_total, date_diff_days) ==
    LET amount_diff == Abs(trans_amount - order_total)
        date_score == 20 - (date_diff_days * 3)
        bonus == IF date_diff_days = 0 THEN 10 ELSE 0
        Total(amount_score) == Min(amount_score + date_score + bonus, 100)
    IN  IF amount_diff < 1 THEN Total(50)
        ELSE IF amount_diff <= 100 THEN Total(30)
        ELSE IF amount_diff <= AMOUNT_MATCHING_TOLERANCE THEN Total(20)
        ELSE 0

\* The function with the points of the two inexact amount tiers exchanged.
calculate_confidence_score_TiersSwapped(trans_amount, order_total, date_diff_days) ==
    LET amount_diff == Abs(trans_amount - order_total)
        date_score == Max(0, 20 - (date_diff_days * 3))
        bonus == IF date_diff_days = 0 THEN 10 ELSE 0
        Total(amount_score) == Min(amount_score + date_score + bonus, 100)
    IN  IF amount_diff < 1 THEN Total(50)
        ELSE IF amount_diff <= 100 THEN Total(20)
        ELSE IF amount_diff <= AMOUNT_MATCHING_TOLERANCE THEN Total(30)
        ELSE 0

calculate_confidence_score(trans_amount, order_total, date_diff_days) ==
    LET amount_diff == Abs(trans_amount - order_total)
        date_score == Max(0, 20 - (date_diff_days * 3))
        bonus == IF date_diff_days = 0 THEN 10 ELSE 0
        Total(amount_score) == Min(amount_score + date_score + bonus, 100)
    IN  IF amount_diff < 1 THEN Total(50)
        ELSE IF amount_diff <= 100 THEN Total(30)
        ELSE IF amount_diff <= AMOUNT_MATCHING_TOLERANCE THEN Total(20)
        ELSE 0

---------------------------------------------------------------------------
(* match_all_transactions_optimally *)

\* items=None of an unmatched result; the code only tests `if items`.
NoItems == <<>>

\* emails_by_type[email_type]: the records of that type, in table order.
emails_by_type(orders, email_type) ==
    LET Keep(order) == /\ order.email_type = email_type
                       /\ order.email_type # ""
                       /\ order.email_id # ""
    IN  SelectSeq(orders, Keep)

\* orders_by_email[email_id]: every record of that email, in table order.
orders_by_email(orders, email_id) ==
    LET Keep(order) == order.email_id = email_id /\ order.email_id # ""
    IN  SelectSeq(orders, Keep)

\* The receipt types searched for a transaction, in order.
email_types_all(is_credit) == <<"return", "shipment", "order">>

email_types(is_credit) ==
    IF is_credit THEN <<"return">> ELSE <<"shipment", "order">>

RECURSIVE ConcatByType(_, _, _)
ConcatByType(orders, types, i) ==
    IF i > Len(types) THEN <<>>
    ELSE emails_by_type(orders, types[i]) \o ConcatByType(orders, types, i + 1)

\* The inner loops of phase 1 for one transaction: the records of the searched
\* types in order, seen_emails shared by the types.
RECURSIVE ScanOrders(_, _, _, _, _, _)
ScanOrders(orders, todo, seen_emails, row_num, trans_date, trans_amount) ==
    IF todo = <<>> THEN <<>>
    ELSE
      LET order == Head(todo)
          email_id == order.email_id
          order_date == order.parsed_date
          date_diff == Abs(trans_date - order_date)
          email_items == orders_by_email(orders, email_id)
          shipment_total == email_items[1].shipment_total
          score == calculate_confidence_score(trans_amount, shipment_total, date_diff)
          rest == ScanOrders(orders, Tail(todo), seen_emails \cup {email_id},
                             row_num, trans_date, trans_amount)
      IN  IF email_id \in seen_emails
            THEN ScanOrders(orders, Tail(todo), seen_emails,
                            row_num, trans_date, trans_amount)
          ELSE IF order_date = NoDate THEN rest
          ELSE IF date_diff > DATE_MATCHING_WINDOW_DAYS THEN rest
          ELSE IF email_items = <<>> THEN rest
          ELSE IF shipment_total = 0 THEN rest
          ELSE IF score > 0
            THEN <<[score |-> score, row_num |-> row_num,
                    email_id |-> email_id, items |-> email_items]>> \o rest
          ELSE rest

\* Phase 1 without the guard of line 689.
RECURSIVE ScoreAll_NoGuard(_, _, _)
ScoreAll_NoGuard(txs, orders, i) ==
    IF i > Len(txs) THEN <<>>
    ELSE
      LET trans == txs[i]
          trans_date == parse_date(trans.Date)
          trans_amount_raw == parse_amount(trans.Amount)
          trans_amount == Abs(trans_amount_raw)
          is_credit == trans_amount_raw > 0
          todo == ConcatByType(orders, email_types(is_credit), 1)
      IN  ScanOrders(orders, todo, {}, trans.row_number, trans_date, trans_amount)
          \o ScoreAll_NoGuard(txs, orders, i + 1)

\* Phase 1: all_matches, in discovery order.
RECURSIVE ScoreAll(_, _, _)
ScoreAll(txs, orders, i) ==
    IF i > Len(txs) THEN <<>>
    ELSE
      LET trans == txs[i]
          trans_date == parse_date(trans.Date)
          trans_amount_raw == parse_amount(trans.Amount)
          trans_amount == Abs(trans_amount_raw)
          is_credit == trans_amount_raw > 0
          todo == ConcatByType(orders, email_types(is_credit), 1)
      IN  (IF trans_date = NoDate \/ trans_amount = 0 THEN <<>>
           ELSE ScanOrders(orders, todo, {}, trans.row_number,
                           trans_date, trans_amount))
          \o ScoreAll(txs, orders, i + 1)

\* list.sort(key=score, reverse=True): stable, so equal scores keep their
\* discovery order.
RECURSIVE InsertByScore_TiesReversed(_, _)
InsertByScore_TiesReversed(sorted, m) ==
    IF sorted = <<>> THEN <<m>>
    ELSE IF Head(sorted).score > m.score
           THEN <<Head(sorted)>> \o InsertByScore_TiesReversed(Tail(sorted), m)
         ELSE <<m>> \o sorted

RECURSIVE InsertByScore(_, _)
InsertByScore(sorted, m) ==
    IF sorted = <<>> THEN <<m>>
    ELSE IF Head(sorted).score >= m.score
           THEN <<Head(sorted)>> \o InsertByScore(Tail(sorted), m)
         ELSE <<m>> \o sorted

SortByScoreDesc_Unsorted(matches, i) == matches

RECURSIVE SortByScoreDesc(_, _)
SortByScoreDesc(matches, i) ==
    IF i = 0 THEN <<>>
    ELSE InsertByScore(SortByScoreDesc(matches, i - 1), matches[i])

\* The status of a candidate the walk reaches; "" when it is below the floor
\* and is not assigned.
StatusOf_NoFloor(score) ==
    IF score >= CONFIDENCE_THRESHOLD_HIGH THEN "matched" ELSE "low_confidence"

StatusOf(score) ==
    IF score >= CONFIDENCE_THRESHOLD_HIGH THEN "matched"
    ELSE IF score >= CONFIDENCE_THRESHOLD_LOW THEN "low_confidence"
    ELSE ""

\* Whether the walk skips a candidate: its transaction or its email is taken.
AlreadyAssigned_TxOnly(m, used_e, used_t) == m.row_num \in used_t

AlreadyAssigned(m, used_e, used_t) ==
    m.row_num \in used_t \/ m.email_id \in used_e

\* Phase 2: the walk over the sorted candidates.
RECURSIVE GreedyWalk(_, _, _, _, _)
GreedyWalk(sorted, i, used_e, used_t, results) ==
    IF i > Len(sorted)
      THEN [match_results |-> results, used_emails |-> used_e,
            used_transactions |-> used_t]
    ELSE
      LET m == sorted[i]
          status == StatusOf(m.score)
      IN  IF AlreadyAssigned(m, used_e, used_t) \/ status = ""
            THEN GreedyWalk(sorted, i + 1, used_e, used_t, results)
          ELSE GreedyWalk(sorted, i + 1,
                          used_e \cup {m.email_id}, used_t \cup {m.row_num},
                          (m.row_num :> [items |-> m.items, score |-> m.score,
                                         status |-> status]) @@ results)

\* Phase 3: every transaction without a result is unmatched.
MarkUnmatched_OnlyAssigned(results, txs) == results

MarkUnmatched(results, txs) ==
    LET rows == {txs[i].row_number : i \in DOMAIN txs}
    IN  [r \in (DOMAIN results) \cup rows |->
            IF r \in DOMAIN results THEN results[r]
            ELSE [items |-> NoItems, score |-> 0, status |-> "unmatched"]]

\* used_emails, used_transactions and match_results as a call creates them.
FreshUsedEmails_Carried == used_emails

FreshUsedEmails == {}

FreshUsedTransactions == {}

FreshMatchResults == <<>>

match_all_transactions_optimally(txs, orders) ==
    LET all_matches == ScoreAll(txs, orders, 1)
        sorted == SortByScoreDesc(all_matches, Len(all_matches))
        walked == GreedyWalk(sorted, 1, FreshUsedEmails, FreshUsedTransactions,
                             FreshMatchResults)
    IN  [match_results |-> MarkUnmatched(walked.match_results, txs),
         used_emails |-> walked.used_emails,
         used_transactions |-> walked.used_transactions,
         all_matches |-> all_matches]

---------------------------------------------------------------------------
(* Descriptions, accounts and item names of the model, with the string tests
   the code makes on them *)

AMAZON_ACCOUNT == "Chase Sapphire"

Descriptions ==
    {"AMZN Mktp US*AB1", "Amazon.com*CD2", "Amazon Prime", "Amazon Prime*XY2",
     "Whole Foods", "Amazon.com*AB12CD34EF56 WA", "Amazon.com*AB12CD34EF56 OR",
     "Amazon Kids+ Amazon Prime*1A2"}

\* desc_upper == p.upper() or desc_upper.startswith(p.upper()) for some p of
\* AMAZON_DESCRIPTION_PATTERNS ('Amazon', 'AMZN', 'Amzn').
is_amazon(description) ==
    description \in {"AMZN Mktp US*AB1", "Amazon.com*CD2", "Amazon Prime",
                     "Amazon Prime*XY2", "Amazon.com*AB12CD34EF56 WA",
                     "Amazon.com*AB12CD34EF56 OR",
                     "Amazon Kids+ Amazon Prime*1A2"}

\* AMAZON_KNOWN_PATTERNS, in list order.
AMAZON_KNOWN_PATTERNS ==
    << [pattern |-> "Amazon Prime*", exact_match |-> FALSE,
        clean_name |-> "Amazon Prime - Movie Rental"],
       [pattern |-> "Amazon Prime", exact_match |-> TRUE,
        clean_name |-> "Amazon Prime - Subscription"],
       [pattern |-> "Amazon Kids", exact_match |-> FALSE,
        clean_name |-> "Amazon Kids - Movie Rental"],
       [pattern |-> "Amazon Tips", exact_match |-> FALSE,
        clean_name |-> "Amazon - Grocery Tips"],
       [pattern |-> "Amzn Digital", exact_match |-> FALSE,
        clean_name |-> "Amazon Digital - Movie Rental"],
       [pattern |-> "AMZN Digital", exact_match |-> FALSE,
        clean_name |-> "Amazon Digital - Movie Rental"] >>

\* pattern.upper() in description.strip().upper()
UpperIn(pattern, description) ==
    \/ pattern = "Amazon Prime*"
          /\ description \in {"Amazon Prime*XY2", "Amazon Kids+ Amazon Prime*1A2"}
    \/ pattern = "Amazon Prime"
          /\ description \in {"Amazon Prime", "Amazon Prime*XY2",
                              "Amazon Kids+ Amazon Prime*1A2"}
    \/ pattern = "Amazon Kids" /\ description = "Amazon Kids+ Amazon Prime*1A2"

\* description.strip().upper() == pattern.upper()
UpperEq(pattern, description) ==
    pattern = "Amazon Prime" /\ description = "Amazon Prime"

NoPattern == ""

RECURSIVE KnownPatternFrom_LastHit(_, _)
KnownPatternFrom_LastHit(description, i) ==
    IF i > Len(AMAZON_KNOWN_PATTERNS) THEN NoPattern
    ELSE LET rule == AMAZON_KNOWN_PATTERNS[i]
             hit == IF rule.exact_match THEN UpperEq(rule.pattern, description)
                    ELSE UpperIn(rule.pattern, description)
             later == KnownPatternFrom_LastHit(description, i + 1)
         IN  IF later # NoPattern THEN later
             ELSE IF hit THEN rule.clean_name ELSE NoPattern

RECURSIVE KnownPatternFrom(_, _)
KnownPatternFrom(description, i) ==
    IF i > Len(AMAZON_KNOWN_PATTERNS) THEN NoPattern
    ELSE LET rule == AMAZON_KNOWN_PATTERNS[i]
             hit == IF rule.exact_match THEN UpperEq(rule.pattern, description)
                    ELSE UpperIn(rule.pattern, description)
         IN  IF hit THEN rule.clean_name
             ELSE KnownPatternFrom(description, i + 1)

get_known_amazon_pattern(description) == KnownPatternFrom(description, 1)

\* summarize_item_name on the item names of the model: the "NofM_" prefix is
\* stripped, a leading quantity moves into a parenthesis, '' stays ''.
summarize_item_name(item_name) ==
    CASE item_name = "1of2_USB Cable" -> "USB Cable"
      [] item_name = "2of2_USB Cable" -> "USB Cable"
      [] item_name = "100 Pack Hand Warmers" -> "Hand Warmers (100)"
      [] OTHER -> item_name

---------------------------------------------------------------------------
(* generate_output_rows *)

NoConfidence == -1

RequiredColumns(trans) ==
    [Date |-> trans.Date, Description |-> trans.Description,
     Category |-> trans.Category, Amount |-> trans.Amount,
     Account |-> trans.Account]

OutputRow(trans, description, amount, order_id, confidence, status, processed_at) ==
    [Date |-> trans.Date, Description |-> description,
     Category |-> trans.Category, Amount |-> amount, Account |-> trans.Account,
     amazon_order_id |-> order_id, match_confidence |-> confidence,
     match_status |-> status, source_row |-> trans.row_number,
     processed_at |-> processed_at]

\* The rows of a matched transaction: one per item with a name.
RECURSIVE ItemRows(_, _, _, _, _, _)
ItemRows(trans, items, i, confidence, status, processed_at) ==
    IF i > Len(items) THEN <<>>
    ELSE
      LET item == items[i]
          original_amount == parse_amount(trans.Amount)
          amount_sign == IF original_amount < 0 THEN "-" ELSE ""
          rest == ItemRows(trans, items, i + 1, confidence, status, processed_at)
      IN  IF item.item_name = "" THEN rest
          ELSE <<OutputRow(trans, summarize_item_name(item.item_name),
                           [sign |-> amount_sign, num |-> item.item_price],
                           trans.Description, confidence, status,
                           processed_at)>> \o rest

\* The rows of one transaction of all_transactions.
RowsOf(trans, amazon_row_numbers, results, processed_at) ==
    LET row_num == trans.row_number
    IN  IF row_num \in amazon_row_numbers /\ row_num \in DOMAIN results
          THEN
            LET res == results[row_num]
                clean_name == get_known_amazon_pattern(trans.Description)
            IN  IF res.items # NoItems /\ res.status \in {"matched", "low_confidence"}
                  THEN ItemRows(trans, res.items, 1, res.score, res.status,
                                processed_at)
                ELSE IF clean_name # NoPattern
                  THEN <<OutputRow(trans, clean_name, trans.Amount, "",
                                   res.score, "known_pattern", processed_at)>>
                ELSE <<OutputRow(trans, trans.Description, trans.Amount, "",
                                 res.score, res.status, processed_at)>>
        ELSE <<OutputRow(trans, trans.Description, trans.Amount, "",
                         NoConfidence, "", processed_at)>>

RECURSIVE GenerateFrom(_, _, _, _, _)
GenerateFrom(all_txs, i, amazon_row_numbers, results, processed_at) ==
    IF i > Len(all_txs) THEN <<>>
    ELSE RowsOf(all_txs[i], amazon_row_numbers, results, processed_at)
         \o GenerateFrom(all_txs, i + 1, amazon_row_numbers, results, processed_at)

generate_output_rows(all_txs, amazon_txs, results, processed_at) ==
    GenerateFrom(all_txs, 1, {amazon_txs[i].row_number : i \in DOMAIN amazon_txs},
                 results, processed_at)

\* A row without its processed_at timestamp.
StripTime(row) == [row EXCEPT !.processed_at = 0]

StripTimes(rows) == [i \in DOMAIN rows |-> StripTime(rows[i])]

---------------------------------------------------------------------------
(* load_transactions and _dedup_plaid_transactions *)

SKIP_BLANK_CATEGORY_HINT == FALSE

\* str(flag).strip().upper() is 'TRUE' or '1'
flag_is_set_OnlyOne(flag) == flag = "1"

flag_is_set(flag) == flag \in {"TRUE", "true", "1"}

\* Description.strip().upper()
desc_upper(description) ==
    CASE description = "AMZN Mktp US*AB1" -> "AMZN MKTP US*AB1"
      [] description = "Amazon.com*CD2" -> "AMAZON.COM*CD2"
      [] description = "Amazon Prime" -> "AMAZON PRIME"
      [] description = "Amazon Prime*XY2" -> "AMAZON PRIME*XY2"
      [] description = "Whole Foods" -> "WHOLE FOODS"
      [] description = "Amazon.com*AB12CD34EF56 WA" -> "AMAZON.COM*AB12CD34EF56 WA"
      [] description = "Amazon.com*AB12CD34EF56 OR" -> "AMAZON.COM*AB12CD34EF56 OR"
      [] description = "Amazon Kids+ Amazon Prime*1A2"
           -> "AMAZON KIDS+ AMAZON PRIME*1A2"
      [] OTHER -> description

\* Description[:DEDUP_DESC_PREFIX_LEN].strip().upper(): the first 20
\* characters; the other descriptions of the model are shorter than that.
desc_prefix(description) ==
    CASE description = "Amazon.com*AB12CD34EF56 WA" -> "AMAZON.COM*AB12CD34E"
      [] description = "Amazon.com*AB12CD34EF56 OR" -> "AMAZON.COM*AB12CD34E"
      [] description = "Amazon Kids+ Amazon Prime*1A2" -> "AMAZON KIDS+ AMAZON"
      [] OTHER -> desc_upper(description)

\* The texts of the Date Added cells of the model, in the order Python's
\* string comparison gives them.
DateAddedStrings == <<"", "10/1/2024", "9/30/2024">>

StrRank(text) ==
    CHOOSE i \in DOMAIN DateAddedStrings : DateAddedStrings[i] = text

plaid_key(trans) ==
    <<trans.Date, trans.Amount, trans.Account, desc_prefix(trans.Description)>>

\* rows.sort(key=(has_hint, date_added)): whether a sorts at or before b.
HintKeyLe(a, b) ==
    \/ (~a.has_hint) /\ b.has_hint
    \/ a.has_hint = b.has_hint /\ StrRank(a.date_added) <= StrRank(b.date_added)

RECURSIVE InsertByHint(_, _)
InsertByHint(sorted, t) ==
    IF sorted = <<>> THEN <<t>>
    ELSE IF HintKeyLe(Head(sorted), t)
           THEN <<Head(sorted)>> \o InsertByHint(Tail(sorted), t)
         ELSE <<t>> \o sorted

RECURSIVE SortByHint(_, _)
SortByHint(rows, i) ==
    IF i = 0 THEN <<>> ELSE InsertByHint(SortByHint(rows, i - 1), rows[i])

RECURSIVE InsertByRow(_, _)
InsertByRow(sorted, t) ==
    IF sorted = <<>> THEN <<t>>
    ELSE IF Head(sorted).row_number <= t.row_number
           THEN <<Head(sorted)>> \o InsertByRow(Tail(sorted), t)
         ELSE <<t>> \o sorted

RECURSIVE SortByRow(_, _)
SortByRow(rows, i) ==
    IF i = 0 THEN <<>> ELSE InsertByRow(SortByRow(rows, i - 1), rows[i])

\* The best row of every group, in the order the groups were first seen.
RECURSIVE BestOfGroups(_, _, _)
BestOfGroups(txs, i, seen_keys) ==
    IF i > Len(txs) THEN <<>>
    ELSE
      LET key == plaid_key(txs[i])
          SameKey(t) == plaid_key(t) = key
          rows == SelectSeq(txs, SameKey)
          sorted == SortByHint(rows, Len(rows))
      IN  IF key \in seen_keys THEN BestOfGroups(txs, i + 1, seen_keys)
          ELSE <<sorted[Len(sorted)]>>
                 \o BestOfGroups(txs, i + 1, seen_keys \cup {key})

dedup_plaid_transactions_Unsorted(txs) == BestOfGroups(txs, 1, {})

dedup_plaid_transactions(txs) ==
    LET deduped == BestOfGroups(txs, 1, {})
    IN  SortByRow(deduped, Len(deduped))

\* The rows of the sheet that are not flagged, numbered from 2 (row 1 is the
\* header).
RECURSIVE UnflaggedFrom(_, _)
UnflaggedFrom(sheet, i) ==
    IF i > Len(sheet) THEN <<>>
    ELSE
      LET row == sheet[i]
          trans == [row_number |-> i + 1, Date |-> row.Date,
                    Description |-> row.Description, Category |-> row.Category,
                    Amount |-> row.Amount, Account |-> row.Account,
                    has_hint |-> row.Category_Hint # "",
                    date_added |-> row.Date_Added]
      IN  IF flag_is_set(row.Processed_Flag) THEN UnflaggedFrom(sheet, i + 1)
          ELSE IF SKIP_BLANK_CATEGORY_HINT /\ row.Category_Hint = ""
            THEN UnflaggedFrom(sheet, i + 1)
          ELSE <<trans>> \o UnflaggedFrom(sheet, i + 1)

load_transactions(sheet) == dedup_plaid_transactions(UnflaggedFrom(sheet, 1))

---------------------------------------------------------------------------
(* filter_amazon_transactions, deduplicate_transactions, load_parsed_orders *)

filter_amazon_transactions_AnyAccount(txs) ==
    LET Keep(trans) == is_amazon(trans.Description)
    IN  SelectSeq(txs, Keep)

filter_amazon_transactions(txs) ==
    LET Keep(trans) == /\ trans.Account = AMAZON_ACCOUNT
                       /\ is_amazon(trans.Description)
    IN  SelectSeq(txs, Keep)

RECURSIVE UniqueFrom(_, _, _)
UniqueFrom(txs, i, seen) ==
    IF i > Len(txs) THEN <<>>
    ELSE LET key == <<txs[i].Date, desc_upper(txs[i].Description)>>
         IN  IF key \in seen THEN UniqueFrom(txs, i + 1, seen)
             ELSE <<txs[i]>> \o UniqueFrom(txs, i + 1, seen \cup {key})

deduplicate_transactions(txs) == UniqueFrom(txs, 1, {})

\* main(): the dates of the transactions to match that parse.
trans_dates(txs) ==
    {parse_date(txs[i].Date) : i \in DOMAIN txs} \ {NoDate}

SetMin(S) == CHOOSE x \in S : \A y \in S : x <= y
SetMax(S) == CHOOSE x \in S : \A y \in S : x >= y

WINDOW_MARGIN == 7

\* _parse_order_date: the day, or None.
parse_order_date(date_str) == IF date_str = NoDate THEN NoDate ELSE date_str

\* load_parsed_orders after a successful read: the records whose date does
\* not parse or lies within the range computed from dates.
load_parsed_orders(sheet, dates) ==
    LET min_date == SetMin(dates) - (DATE_MATCHING_WINDOW_DAYS + WINDOW_MARGIN)
        max_date == SetMax(dates) + (DATE_MATCHING_WINDOW_DAYS + WINDOW_MARGIN)
        Keep(row) ==
            LET parsed_date == parse_order_date(row.email_date)
            IN  \/ parsed_date = NoDate
                \/ dates = {}
                \/ parsed_date >= min_date /\ parsed_date <= max_date
        Order(row) ==
            [email_id |-> row.email_id, email_type |-> row.email_type,
             parsed_date |-> parse_order_date(row.email_date),
             shipment_total |-> row.shipment_total,
             item_name |-> row.item_name, item_price |-> row.item_price]
        kept == SelectSeq(sheet, Keep)
    IN  [i \in DOMAIN kept |-> Order(kept[i])]

---------------------------------------------------------------------------
(* write_output and update_processed_flags *)

EmptySheet == [header |-> FALSE, rows |-> <<>>]

\* The history of a run: the output sheet when it started, whether a store
\* call failed in it, how main() ended ("running", "returned" early,
\* "completed" or "raised") and how its call of write_output ended ("none",
\* "returned" or "raised").
NoRun == [output0 |-> EmptySheet, failed |-> FALSE, outcome |-> "none",
          write |-> "none"]

\* The invocations where the cloud function is not modelled.
NoInvocations == <<>>

\* The source rows read back from the output sheet; none without the header
\* that names the source_row column.
existing_source_rows(sheet) ==
    IF sheet.header THEN {sheet.rows[i].source_row : i \in DOMAIN sheet.rows}
    ELSE {}

\* The rows whose source_row is not among the existing ones.
filter_new_rows(rows, existing) ==
    LET IsNew(row) == row.source_row \notin existing
    IN  SelectSeq(rows, IsNew)

\* main(): the rows to flag.
matched_rows_AnyStatus(results) == DOMAIN results

matched_rows(results) ==
    {r \in DOMAIN results : results[r].status = "matched"}

set_processed_flags_WholeColumn(sheet, row_numbers) ==
    [i \in DOMAIN sheet |-> [sheet[i] EXCEPT !.Processed_Flag = "TRUE"]]

set_processed_flags(sheet, row_numbers) ==
    [i \in DOMAIN sheet |->
        IF (i + 1) \in row_numbers
          THEN [sheet[i] EXCEPT !.Processed_Flag = "TRUE"]
          ELSE sheet[i]]

clear_processed_flags(sheet) ==
    [i \in DOMAIN sheet |-> [sheet[i] EXCEPT !.Processed_Flag = ""]]

\* The <<email_id, source_row>> pairs behind the rows a write put in the store.
WrittenPairs(results, rows) ==
    {<<e, r>> \in
        UNION {{<<results[r2].items[k].email_id, r2>> :
                    k \in DOMAIN results[r2].items} : r2 \in DOMAIN results} :
        \E i \in DOMAIN rows : rows[i].source_row = r}

---------------------------------------------------------------------------
(* Bounds and input sets *)

MaxDateDiff == 8
MaxTx == 2

Raw(sign, num) == [sign |-> sign, num |-> num]

ScoreTxAmounts == {4103}
ScoreOffsets == {-350, -301, -300, -101, -100, -1, 0, 1, 100, 300, 301}
ScoreArgs ==
    {[trans_amount |-> t, order_total |-> t + o, date_diff_days |-> d] :
        t \in ScoreTxAmounts, o \in ScoreOffsets, d \in 0..MaxDateDiff}

\* (Date, Amount) of a ledger row handed to the matcher: charges written with
\* a minus or in parentheses, a credit, an unparseable date, an unparseable
\* amount, a small charge, a zero amount.
TxChoices ==
    {<<10, Raw("-", 4103)>>, <<10, Raw("(", 4003)>>, <<10, Raw("", 4103)>>,
     <<NoDate, Raw("-", 4103)>>, <<10, Raw("", BadNum)>>, <<10, Raw("-", 150)>>,
     <<10, Raw("", 0)>>}

Transaction(row_number, date, description, amount, account) ==
    [row_number |-> row_number, Date |-> date, Description |-> description,
     Category |-> "", Amount |-> amount, Account |-> account]

TxLists ==
    {[i \in 1..MaxTx |->
        Transaction(i + 1, c[i][1], "AMZN Mktp US*AB1", c[i][2], AMAZON_ACCOUNT)] :
     c \in [1..MaxTx -> TxChoices]}

\* (email_type, email_date, shipment_total) of one email: every type on the
\* day, four days off and outside the window, an email without a total
\* (_safe_float of an empty or unparseable cell is 0.0) and one whose cell
\* holds "-1.00" (_safe_float keeps the sign).
EmailIds == <<"e1", "e2">>
EmailChoices ==
    ({"shipment", "order", "return"} \X {10, 14, 45} \X {4103})
        \cup {<<"shipment", 10, 0>>, <<"shipment", 10, -100>>}

\* The item rows the cloud function wrote for an email.
ItemsOfEmail(email_id) ==
    IF email_id = "e1"
      THEN << [item_name |-> "1of2_USB Cable", item_price |-> 2051],
              [item_name |-> "2of2_USB Cable", item_price |-> 2051] >>
      ELSE << [item_name |-> "100 Pack Hand Warmers", item_price |-> 4103] >>

OrderRecords(email_id, c) ==
    [i \in DOMAIN ItemsOfEmail(email_id) |->
        [email_id |-> email_id, email_type |-> c[1], parsed_date |-> c[2],
         shipment_total |-> c[3],
         item_name |-> ItemsOfEmail(email_id)[i].item_name,
         item_price |-> ItemsOfEmail(email_id)[i].item_price]]

RECURSIVE TableOf(_, _)
TableOf(c, i) ==
    IF i > Len(EmailIds) THEN <<>>
    ELSE OrderRecords(EmailIds[i], c[i]) \o TableOf(c, i + 1)

OrderTables == {TableOf(c, 1) : c \in [DOMAIN EmailIds -> EmailChoices]}

\* The stores and main()'s locals where no run of main() is modelled.
StoresUnused ==
    /\ ledger = <<>> /\ receipts = <<>>
    /\ output = [header |-> FALSE, rows |-> <<>>]
    /\ dev_mode = FALSE /\ all_transactions = <<>> /\ new_rows = <<>>
    /\ failures = 0 /\ consumed = {} /\ all_prod = TRUE
    /\ run = NoRun /\ invocations = NoInvocations

---------------------------------------------------------------------------
(* SpecScore: calculate_confidence_score applied to two argument triples *)

InitScore ==
    /\ pc = "score_call"
    /\ score_in \in ScoreArgs \X ScoreArgs
    /\ score_out = <<>>
    /\ transactions = <<>> /\ parsed_orders = <<>> /\ match_results = <<>>
    /\ used_emails = {} /\ used_transactions = {} /\ output_rows = <<>>
    /\ first_call = <<>> /\ now = 1
    /\ StoresUnused

ScoreCall ==
    /\ pc = "score_call"
    /\ score_out' =
         [i \in {1, 2} |->
            calculate_confidence_score(score_in[i].trans_amount,
                                       score_in[i].order_total,
                                       score_in[i].date_diff_days)]
    /\ pc' = "score_done"
    /\ UNCHANGED <<score_in, cloudVars, callVars, first_call, now, storeVars, runVars>>

NextScore == ScoreCall

SpecScore == InitScore /\ [][NextScore]_vars

---------------------------------------------------------------------------
(* SpecMatch: the matcher and the generator called on one snapshot, twice *)

InitMatch ==
    /\ pc = "ready"
    /\ transactions \in TxLists
    /\ parsed_orders \in OrderTables
    /\ match_results = <<>>
    /\ used_emails = {} /\ used_transactions = {} /\ output_rows = <<>>
    /\ first_call = <<>> /\ now = 1
    /\ score_in = <<>> /\ score_out = <<>>
    /\ StoresUnused

CallMatcher ==
    /\ pc = "ready"
    /\ LET ret == match_all_transactions_optimally(transactions, parsed_orders)
       IN  /\ match_results' = ret.match_results
           /\ used_emails' = ret.used_emails
           /\ used_transactions' = ret.used_transactions
    /\ pc' = "matched"
    /\ UNCHANGED <<scoreVars, cloudVars, transactions, parsed_orders, output_rows,
                   first_call, now, storeVars, runVars>>

CallGenerate ==
    /\ pc = "matched"
    /\ output_rows' = generate_output_rows(transactions, transactions,
                                           match_results, now)
    /\ pc' = "generated"
    /\ UNCHANGED <<scoreVars, cloudVars, transactions, parsed_orders, match_results,
                   used_emails, used_transactions, first_call, now, storeVars,
                   runVars>>

\* The engine is run again on the unchanged snapshot, at a later time.
CallAgain ==
    /\ pc = "generated"
    /\ first_call = <<>>
    /\ first_call' = <<[match_results |-> match_results,
                        output_rows |-> output_rows]>>
    /\ now' = now + 1
    /\ pc' = "ready"
    /\ UNCHANGED <<scoreVars, cloudVars, callVars, storeVars, runVars>>

NextMatch == CallMatcher \/ CallGenerate \/ CallAgain

SpecMatch == InitMatch /\ [][NextMatch]_vars

---------------------------------------------------------------------------
(* Spec: runs of main() over a ledger that grows between runs *)

MaxLedger == 3
MaxRuns == 3
MaxFailures == 1

LedgerRow(date, description, amount, account) ==
    [Date |-> date, Description |-> description, Category |-> "",
     Amount |-> amount, Account |-> account, Processed_Flag |-> "",
     Category_Hint |-> "", Date_Added |-> ""]

\* The rows the bank sync appends: two card charges of 41.03 a day apart, a
\* charge four days later, a subscription charge, a grocery charge on another
\* account, a charge whose flag cell was set to 1 by hand.
LedgerChoices ==
    {LedgerRow(10, "AMZN Mktp US*AB1", Raw("-", 4103), AMAZON_ACCOUNT),
     LedgerRow(11, "AMZN Mktp US*AB1", Raw("-", 4103), AMAZON_ACCOUNT),
     LedgerRow(14, "Amazon.com*CD2", Raw("-", 4103), AMAZON_ACCOUNT),
     LedgerRow(10, "Amazon Prime", Raw("-", 1499), AMAZON_ACCOUNT),
     LedgerRow(10, "Whole Foods", Raw("-", 4103), "Checking"),
     [LedgerRow(14, "Amazon.com*CD2", Raw("-", 4103), AMAZON_ACCOUNT)
        EXCEPT !.Processed_Flag = "1"]}

ReceiptRow(email_id, email_type, email_date, shipment_total, item_name, item_price) ==
    [email_id |-> email_id, email_type |-> email_type, email_date |-> email_date,
     shipment_total |-> shipment_total, item_name |-> item_name,
     item_price |-> item_price]

\* The Parsed Orders sheet: a shipment of 41.03 on day 10, alone, with its
\* order confirmation, or with a shipment dated outside every window; or
\* that late shipment only.
ReceiptSheets ==
    {<<ReceiptRow("e1", "shipment", 10, 4103, "100 Pack Hand Warmers", 4103)>>,
     <<ReceiptRow("e1", "shipment", 10, 4103, "100 Pack Hand Warmers", 4103),
       ReceiptRow("e2", "order", 10, 4103, "100 Pack Hand Warmers", 4103)>>,
     <<ReceiptRow("e1", "shipment", 10, 4103, "100 Pack Hand Warmers", 4103),
       ReceiptRow("e2", "shipment", 90, 4103, "1of2_USB Cable", 2051),
       ReceiptRow("e2", "shipment", 90, 4103, "2of2_USB Cable", 2051)>>,
     <<ReceiptRow("e2", "shipment", 90, 4103, "1of2_USB Cable", 2051),
       ReceiptRow("e2", "shipment", 90, 4103, "2of2_USB Cable", 2051)>>}

Init ==
    /\ pc = "idle"
    /\ ledger \in {<<row>> : row \in LedgerChoices}
    /\ receipts \in ReceiptSheets
    /\ output = EmptySheet
    /\ dev_mode = FALSE
    /\ now = 0
    /\ failures = 0 /\ consumed = {} /\ all_prod = TRUE
    /\ run = NoRun /\ invocations = NoInvocations
    /\ all_transactions = <<>> /\ new_rows = <<>>
    /\ transactions = <<>> /\ parsed_orders = <<>> /\ match_results = <<>>
    /\ used_emails = {} /\ used_transactions = {} /\ output_rows = <<>>
    /\ first_call = <<>> /\ score_in = <<>> /\ score_out = <<>>

\* main() returns or raises: its locals are gone.
Return ==
    /\ pc' = "idle"
    /\ all_transactions' = <<>> /\ new_rows' = <<>>
    /\ transactions' = <<>> /\ parsed_orders' = <<>> /\ match_results' = <<>>
    /\ used_emails' = {} /\ used_transactions' = {} /\ output_rows' = <<>>

Raise ==
    /\ failures < MaxFailures
    /\ failures' = failures + 1

\* How the history records a step of the run.
Ended(how) == run' = [run EXCEPT !.outcome = how]
Swallowed == run' = [run EXCEPT !.failed = TRUE]
Propagated == run' = [run EXCEPT !.failed = TRUE, !.outcome = "raised"]

\* The sync appends a row to the ledger between runs.
LedgerAppend ==
    /\ pc = "idle"
    /\ Len(ledger) < MaxLedger
    /\ \E row \in LedgerChoices : ledger' = Append(ledger, row)
    /\ UNCHANGED <<pc, scoreVars, cloudVars, callVars, first_call, now, receipts, output, runVars>>

\* main() starts in the chosen mode.
StartRun ==
    /\ pc = "idle"
    /\ now < MaxRuns
    /\ now' = now + 1
    /\ \E mode \in BOOLEAN :
          /\ dev_mode' = mode
          /\ all_prod' = (all_prod /\ ~mode)
          /\ pc' = IF mode THEN "clear_flags" ELSE "load"
    /\ run' = [output0 |-> output, failed |-> FALSE, outcome |-> "running",
               write |-> "none"]
    /\ UNCHANGED <<scoreVars, cloudVars, callVars, first_call, storeVars, all_transactions,
                   new_rows, failures, consumed>>

\* DEV_MODE: clear_processed_flags.
ClearFlags ==
    /\ pc = "clear_flags"
    /\ ledger' = clear_processed_flags(ledger)
    /\ pc' = "clear_output"
    /\ UNCHANGED <<scoreVars, cloudVars, callVars, first_call, now, receipts, output, runVars>>

ClearFlagsFails ==
    /\ pc = "clear_flags"
    /\ Raise
    /\ Return
    /\ Propagated
    /\ UNCHANGED <<scoreVars, cloudVars, first_call, now, storeVars, dev_mode, consumed, all_prod>>

\* DEV_MODE: clear_output_sheet; a failure is logged and the run goes on.
ClearOutputSheet ==
    /\ pc = "clear_output"
    /\ output' = EmptySheet
    /\ pc' = "load"
    /\ UNCHANGED <<scoreVars, cloudVars, callVars, first_call, now, ledger, receipts, runVars>>

ClearOutputSheetFails ==
    /\ pc = "clear_output"
    /\ Raise
    /\ Swallowed
    /\ pc' = "load"
    /\ UNCHANGED <<scoreVars, cloudVars, callVars, first_call, now, storeVars, dev_mode,
                   all_transactions, new_rows, consumed, all_prod>>

\* Steps 1-3: load_transactions, filter_amazon_transactions,
\* deduplicate_transactions; with no Amazon transaction the other rows are
\* generated and handed to write_output with its default dev_mode=True.
LoadTransactions ==
    /\ pc = "load"
    /\ LET loaded == load_transactions(ledger)
           amazon == deduplicate_transactions(filter_amazon_transactions(loaded))
       IN  IF loaded = <<>> THEN
             /\ Return
             /\ Ended("returned")
             /\ UNCHANGED <<scoreVars, cloudVars, first_call, now, storeVars, dev_mode,
                            failures, consumed, all_prod>>
           ELSE IF amazon = <<>> THEN
             /\ all_transactions' = loaded
             /\ output_rows' = generate_output_rows(loaded, <<>>, <<>>, now)
             /\ pc' = IF output_rows' = <<>> THEN "finish" ELSE "write_clear"
             /\ UNCHANGED <<scoreVars, cloudVars, transactions, parsed_orders, match_results,
                            used_emails, used_transactions, first_call, now,
                            storeVars, dev_mode, new_rows, failures, consumed,
                            all_prod, run>>
           ELSE
             /\ all_transactions' = loaded
             /\ transactions' = amazon
             /\ pc' = "load_orders"
             /\ UNCHANGED <<scoreVars, cloudVars, parsed_orders, match_results, used_emails,
                            used_transactions, output_rows, first_call, now,
                            storeVars, dev_mode, new_rows, failures, consumed,
                            all_prod, run>>

LoadTransactionsFails ==
    /\ pc = "load"
    /\ Raise
    /\ Return
    /\ Propagated
    /\ UNCHANGED <<scoreVars, cloudVars, first_call, now, storeVars, dev_mode, consumed, all_prod>>

\* update() at A1 of a header and rows: it overwrites the cells it covers
\* and leaves any rows below them.
Overwrite(sheet, rows) ==
    LET offset == IF sheet.header THEN 1 ELSE 0
        Below(j) == j + offset > 1 + Len(rows)
        kept == {j \in DOMAIN sheet.rows : Below(j)}
    IN  [header |-> TRUE,
         rows |-> rows \o
                  (IF kept = {} THEN <<>>
                   ELSE SubSeq(sheet.rows, SetMin(kept), Len(sheet.rows)))]

\* Steps 4-6: load_parsed_orders, match_all_transactions_optimally,
\* generate_output_rows; without receipt records main() returns.
LoadOrders ==
    /\ pc = "load_orders"
    /\ LET orders == load_parsed_orders(receipts, trans_dates(transactions))
           ret == match_all_transactions_optimally(transactions, orders)
           rows == generate_output_rows(all_transactions, transactions,
                                        ret.match_results, now)
       IN  IF orders = <<>> THEN
             /\ Return
             /\ Ended("returned")
             /\ UNCHANGED <<scoreVars, cloudVars, first_call, now, storeVars, dev_mode,
                            failures, consumed, all_prod>>
           ELSE
             /\ parsed_orders' = orders
             /\ match_results' = ret.match_results
             /\ used_emails' = ret.used_emails
             /\ used_transactions' = ret.used_transactions
             /\ output_rows' = rows
             /\ pc' = IF rows = <<>>
                        THEN (IF dev_mode THEN "finish" ELSE "update_flags")
                      ELSE IF dev_mode THEN "write_clear" ELSE "write_read"
             /\ run' = IF rows = <<>> THEN [run EXCEPT !.write = "returned"]
                       ELSE run
             /\ UNCHANGED <<scoreVars, cloudVars, transactions, first_call, now, storeVars,
                            dev_mode, all_transactions, new_rows, failures,
                            consumed, all_prod>>

\* The read of the Parsed Orders sheet raises: load_parsed_orders logs it and
\* returns [], and main() returns as if there were no receipts.
LoadOrdersFails ==
    /\ pc = "load_orders"
    /\ Raise
    /\ Return
    /\ run' = [run EXCEPT !.failed = TRUE, !.outcome = "returned"]
    /\ UNCHANGED <<scoreVars, cloudVars, first_call, now, storeVars, dev_mode, consumed, all_prod>>

\* write_output, dev_mode: clear the sheet (a failure is logged) ...
WriteClear ==
    /\ pc = "write_clear"
    /\ output' = EmptySheet
    /\ pc' = "write_update"
    /\ UNCHANGED <<scoreVars, cloudVars, callVars, first_call, now, ledger, receipts, runVars>>

WriteClearFails ==
    /\ pc = "write_clear"
    /\ Raise
    /\ Swallowed
    /\ pc' = "write_update"
    /\ UNCHANGED <<scoreVars, cloudVars, callVars, first_call, now, storeVars, dev_mode,
                   all_transactions, new_rows, consumed, all_prod>>

\* ... and write the header and all rows at A1.
WriteUpdate ==
    /\ pc = "write_update"
    /\ output' = Overwrite(output, output_rows)
    /\ pc' = "finish"
    /\ run' = [run EXCEPT !.write = "returned"]
    /\ UNCHANGED <<scoreVars, cloudVars, callVars, first_call, now, ledger, receipts,
                   dev_mode, all_transactions, new_rows, failures, consumed,
                   all_prod>>

WriteUpdateFails ==
    /\ pc = "write_update"
    /\ Raise
    /\ Return
    /\ run' = [run EXCEPT !.failed = TRUE, !.outcome = "raised",
                          !.write = "raised"]
    /\ UNCHANGED <<scoreVars, cloudVars, first_call, now, storeVars, dev_mode, consumed, all_prod>>

\* Where write_output goes after it has the existing source rows.
AfterRead(rows, existing) ==
    IF rows = <<>> THEN "update_flags"
    ELSE IF existing = {} THEN "write_header"
    ELSE "write_append"

\* write_output, production: read the existing source rows and drop the rows
\* already in the sheet.
WriteRead ==
    /\ pc = "write_read"
    /\ LET existing == existing_source_rows(output)
           rows == filter_new_rows(output_rows, existing)
       IN  /\ new_rows' = rows
           /\ pc' = AfterRead(rows, existing)
           /\ run' = IF rows = <<>> THEN [run EXCEPT !.write = "returned"]
                     ELSE run
    /\ UNCHANGED <<scoreVars, cloudVars, callVars, first_call, now, storeVars, dev_mode,
                   all_transactions, failures, consumed, all_prod>>

\* The read raises: it is logged, existing_source_rows stays empty and every
\* row counts as new.
WriteReadFails ==
    /\ pc = "write_read"
    /\ Raise
    /\ new_rows' = filter_new_rows(output_rows, {})
    /\ pc' = AfterRead(output_rows, {})
    /\ Swallowed
    /\ UNCHANGED <<scoreVars, cloudVars, callVars, first_call, now, storeVars, dev_mode,
                   all_transactions, consumed, all_prod>>

\* No existing source rows: the header is written when row 1 is empty.
WriteHeader ==
    /\ pc = "write_header"
    /\ output' = IF ~output.header /\ output.rows = <<>>
                   THEN [output EXCEPT !.header = TRUE] ELSE output
    /\ pc' = "write_append"
    /\ UNCHANGED <<scoreVars, cloudVars, callVars, first_call, now, ledger, receipts, runVars>>

WriteHeaderFails ==
    /\ pc = "write_header"
    /\ Raise
    /\ Swallowed
    /\ pc' = "write_append"
    /\ UNCHANGED <<scoreVars, cloudVars, callVars, first_call, now, storeVars, dev_mode,
                   all_transactions, new_rows, consumed, all_prod>>

\* append() of the new rows below the sheet's last row.
WriteAppend ==
    /\ pc = "write_append"
    /\ output' = [output EXCEPT !.rows = output.rows \o new_rows]
    /\ consumed' = consumed \cup WrittenPairs(match_results, new_rows)
    /\ pc' = "update_flags"
    /\ run' = [run EXCEPT !.write = "returned"]
    /\ UNCHANGED <<scoreVars, cloudVars, callVars, first_call, now, ledger, receipts,
                   dev_mode, all_transactions, new_rows, failures, all_prod>>

WriteAppendFails ==
    /\ pc = "write_append"
    /\ Raise
    /\ Return
    /\ run' = [run EXCEPT !.failed = TRUE, !.outcome = "raised",
                          !.write = "raised"]
    /\ UNCHANGED <<scoreVars, cloudVars, first_call, now, storeVars, dev_mode, consumed, all_prod>>

\* Step 8, production: update_processed_flags for the matched rows.
UpdateFlags ==
    /\ pc = "update_flags"
    /\ ledger' = set_processed_flags(ledger, matched_rows(match_results))
    /\ pc' = "finish"
    /\ UNCHANGED <<scoreVars, cloudVars, callVars, first_call, now, receipts, output, runVars>>

UpdateFlagsFails ==
    /\ pc = "update_flags"
    /\ matched_rows(match_results) # {}
    /\ Raise
    /\ Return
    /\ Propagated
    /\ UNCHANGED <<scoreVars, cloudVars, first_call, now, storeVars, dev_mode, consumed, all_prod>>

\* main() runs to its end.
Finish ==
    /\ pc = "finish"
    /\ Return
    /\ Ended("completed")
    /\ UNCHANGED <<scoreVars, cloudVars, first_call, now, storeVars, dev_mode, failures,
                   consumed, all_prod>>

Next ==
    \/ LedgerAppend \/ StartRun
    \/ ClearFlags \/ ClearFlagsFails \/ ClearOutputSheet \/ ClearOutputSheetFails
    \/ LoadTransactions \/ LoadTransactionsFails
    \/ LoadOrders \/ LoadOrdersFails
    \/ WriteClear \/ WriteClearFails \/ WriteUpdate \/ WriteUpdateFails
    \/ WriteRead \/ WriteReadFails \/ WriteHeader \/ WriteHeaderFails
    \/ WriteAppend \/ WriteAppendFails
    \/ UpdateFlags \/ UpdateFlagsFails
    \/ Finish

Spec == Init /\ [][Next]_vars

---------------------------------------------------------------------------
(* SpecLoad: load_transactions applied to one Transactions sheet *)

MaxLoadRows == 3

\* A synced row of the card account on day 10: one of two descriptions that
\* agree on their first 20 characters or a third one, with or without a
\* Category Hint, with one of the Date Added texts.
LoadRow(description, hint, date_added) ==
    [LedgerRow(10, description, Raw("-", 4103), AMAZON_ACCOUNT)
        EXCEPT !.Category_Hint = hint, !.Date_Added = date_added]

LoadChoices ==
    {LoadRow(d, h, a) :
        d \in {"Amazon.com*AB12CD34EF56 WA", "Amazon.com*AB12CD34EF56 OR",
               "AMZN Mktp US*AB1"},
        h \in {"", "Shopping"},
        a \in {DateAddedStrings[i] : i \in DOMAIN DateAddedStrings}}
      \cup {[LoadRow("AMZN Mktp US*AB1", "", "") EXCEPT !.Processed_Flag = "TRUE"]}

LoadSheets == UNION {[1..n -> LoadChoices] : n \in 1..MaxLoadRows}

InitLoad ==
    /\ pc = "load_ready"
    /\ ledger \in LoadSheets
    /\ receipts = <<>> /\ output = EmptySheet
    /\ dev_mode = FALSE /\ all_transactions = <<>> /\ new_rows = <<>>
    /\ failures = 0 /\ consumed = {} /\ all_prod = TRUE /\ run = NoRun /\ invocations = NoInvocations
    /\ transactions = <<>> /\ parsed_orders = <<>> /\ match_results = <<>>
    /\ used_emails = {} /\ used_transactions = {} /\ output_rows = <<>>
    /\ first_call = <<>> /\ now = 1
    /\ score_in = <<>> /\ score_out = <<>>

LoadCall ==
    /\ pc = "load_ready"
    /\ all_transactions' = load_transactions(ledger)
    /\ pc' = "load_done"
    /\ UNCHANGED <<scoreVars, cloudVars, callVars, first_call, now, storeVars, dev_mode,
                   new_rows, failures, consumed, all_prod, run>>

NextLoad == LoadCall

SpecLoad == InitLoad /\ [][NextLoad]_vars

---------------------------------------------------------------------------
(* SpecGen: main()'s steps 3, 5 and 6 on loaded transactions and receipts *)

MaxGenTx == 2

\* (Description, Amount, Account, Category) of a loaded transaction on day
\* 10: charges a receipt explains exactly or within a dollar, subscription
\* and rental charges, a charge without a receipt, a store that fails the
\* description filter and a card that fails the account filter.
GenTxChoices ==
    {<<"AMZN Mktp US*AB1", Raw("-", 4103), AMAZON_ACCOUNT, "">>,
     <<"AMZN Mktp US*AB1", Raw("-", 4053), AMAZON_ACCOUNT, "">>,
     <<"Amazon Prime", Raw("-", 1499), AMAZON_ACCOUNT, "Subscriptions">>,
     <<"Amazon Prime*XY2", Raw("-", 1499), AMAZON_ACCOUNT, "">>,
     <<"Amazon Kids+ Amazon Prime*1A2", Raw("-", 1499), AMAZON_ACCOUNT, "">>,
     <<"Amazon.com*CD2", Raw("-", 9900), AMAZON_ACCOUNT, "">>,
     <<"Whole Foods", Raw("-", 4103), AMAZON_ACCOUNT, "Groceries">>,
     <<"AMZN Mktp US*AB1", Raw("-", 4103), "Checking", "">>}

GenTransaction(row_number, c) ==
    [Transaction(row_number, 10, c[1], c[2], c[3]) EXCEPT !.Category = c[4]]

\* Lists load_transactions can return: no two rows with one dedup key.
GenTxLists ==
    {txs \in {[i \in 1..MaxGenTx |-> GenTransaction(i + 1, c[i])] :
                 c \in [1..MaxGenTx -> GenTxChoices]} :
        \A i, j \in DOMAIN txs : plaid_key(txs[i]) = plaid_key(txs[j]) => i = j}

\* The item cells of the rows the cloud function wrote for one email: items
\* with names, an email without items (one row with empty item cells), an
\* item whose name was not parsed.
GenItemLists ==
    {<<[item_name |-> "100 Pack Hand Warmers", item_price |-> 4103]>>,
     <<[item_name |-> "1of2_USB Cable", item_price |-> 2051],
       [item_name |-> "2of2_USB Cable", item_price |-> 2052]>>,
     <<[item_name |-> "", item_price |-> 0]>>,
     <<[item_name |-> "1of2_USB Cable", item_price |-> 2051],
       [item_name |-> "", item_price |-> 2052]>>}

\* A shipment of 41.03 on the day of the charge or four days before it.
GenOrderTables ==
    {[i \in DOMAIN items |->
        [email_id |-> "e1", email_type |-> "shipment", parsed_date |-> day,
         shipment_total |-> 4103, item_name |-> items[i].item_name,
         item_price |-> items[i].item_price]] :
     items \in GenItemLists, day \in {10, 6}}

InitGen ==
    /\ pc = "gen_ready"
    /\ all_transactions \in GenTxLists
    /\ parsed_orders \in GenOrderTables
    /\ ledger = <<>> /\ receipts = <<>> /\ output = EmptySheet
    /\ dev_mode = FALSE /\ new_rows = <<>>
    /\ failures = 0 /\ consumed = {} /\ all_prod = TRUE /\ run = NoRun /\ invocations = NoInvocations
    /\ transactions = <<>> /\ match_results = <<>>
    /\ used_emails = {} /\ used_transactions = {} /\ output_rows = <<>>
    /\ first_call = <<>> /\ now = 1
    /\ score_in = <<>> /\ score_out = <<>>

\* Steps 3 and 5: filter, deduplicate, match.
GenMatch ==
    /\ pc = "gen_ready"
    /\ LET amazon == deduplicate_transactions(
                         filter_amazon_transactions(all_transactions))
           ret == match_all_transactions_optimally(amazon, parsed_orders)
       IN  /\ transactions' = amazon
           /\ match_results' = ret.match_results
           /\ used_emails' = ret.used_emails
           /\ used_transactions' = ret.used_transactions
    /\ pc' = "gen_matched"
    /\ UNCHANGED <<scoreVars, cloudVars, parsed_orders, output_rows, first_call, now,
                   storeVars, runVars>>

\* Step 6: generate_output_rows.
GenGenerate ==
    /\ pc = "gen_matched"
    /\ output_rows' = generate_output_rows(all_transactions, transactions,
                                           match_results, now)
    /\ pc' = "gen_done"
    /\ UNCHANGED <<scoreVars, cloudVars, transactions, parsed_orders, match_results,
                   used_emails, used_transactions, first_call, now, storeVars,
                   runVars>>

NextGen == GenMatch \/ GenGenerate

SpecGen == InitGen /\ [][NextGen]_vars

---------------------------------------------------------------------------
(* SpecCloud: concurrent invocations of the cloud function, each processing
   one email, interleaved at their calls of the Sheets API *)

MaxInvocations == 3
MAX_QUANTITY == 100

\* The messages Gmail can deliver, more than once each: an order email with
\* one item of quantity 2, an order email with one item of quantity 1, and a
\* message that is not from Amazon.  email_type is get_email_type's result
\* ("" for None), items and shipment_total what parse_order_email extracts.
CloudMessages ==
    {[id |-> "e1", email_type |-> "order", email_date |-> 10,
      shipment_total |-> 4103,
      items |-> <<[name |-> "USB Cable", price |-> 2051, quantity |-> 2]>>],
     [id |-> "e2", email_type |-> "order", email_date |-> 10,
      shipment_total |-> 4103,
      items |-> <<[name |-> "100 Pack Hand Warmers", price |-> 4103,
                   quantity |-> 1]>>],
     [id |-> "m3", email_type |-> "", email_date |-> 10,
      shipment_total |-> 0, items |-> <<>>]}

NoMessage == [id |-> "", email_type |-> "", email_date |-> NoDate,
              shipment_total |-> 0, items |-> <<>>]

\* f"{i}of{quantity}_{item_name}" for the items of the model.
prefixed_name(i, quantity, item_name) ==
    IF quantity > 1
      THEN (IF i = 1 THEN "1of2_USB Cable" ELSE "2of2_USB Cable")
      ELSE item_name

\* The rows write_to_parsed_orders_sheet prepares: one per unit of each item,
\* or a single row with empty item cells when there are no items.
RECURSIVE ExpandItems(_, _)
ExpandItems(order_data, n) ==
    IF n > Len(order_data.items) THEN <<>>
    ELSE
      LET item == order_data.items[n]
          quantity == Min(item.quantity, MAX_QUANTITY)
      IN  [i \in 1..quantity |->
              ReceiptRow(order_data.id, order_data.email_type,
                         order_data.email_date, order_data.shipment_total,
                         prefixed_name(i, quantity, item.name), item.price)]
          \o ExpandItems(order_data, n + 1)

prepared_rows(order_data) ==
    IF order_data.items # <<>> THEN ExpandItems(order_data, 1)
    ELSE <<ReceiptRow(order_data.id, order_data.email_type,
                      order_data.email_date, order_data.shipment_total, "", 0)>>

\* is_email_processed: the email_id is in column A.
is_email_processed(sheet, email_id) ==
    \E j \in DOMAIN sheet : sheet[j].email_id = email_id

\* cleanup_duplicate_emails, the read: the 1-indexed sheet rows (the header
\* is row 1, so data row j is sheet row j + 1) that hold email_id, but for the
\* first of them.
duplicate_rows(sheet, email_id) ==
    LET hits == {j \in DOMAIN sheet : sheet[j].email_id = email_id}
        first == CHOOSE j \in hits : \A k \in hits : j <= k
    IN  IF hits = {} THEN {}
        ELSE {j + 1 : j \in hits \ {first}}

\* cleanup_duplicate_emails, the batchUpdate: the sheet rows of the given
\* indices are deleted, highest first; an index below the last data row
\* deletes an empty grid row.
RECURSIVE delete_rows(_, _, _)
delete_rows(sheet, rows, j) ==
    IF j > Len(sheet) THEN <<>>
    ELSE (IF (j + 1) \in rows THEN <<>> ELSE <<sheet[j]>>)
         \o delete_rows(sheet, rows, j + 1)

\* The email_ids of the data rows a batchUpdate removes.
RECURSIVE removed_ids(_, _, _)
removed_ids(sheet, rows, j) ==
    IF j > Len(sheet) THEN <<>>
    ELSE (IF (j + 1) \in rows THEN <<sheet[j].email_id>> ELSE <<>>)
         \o removed_ids(sheet, rows, j + 1)

\* An invocation: where it is in process_single_email, its message, the row
\* indices its cleanup computed, and as history the number of rows it
\* appended, the email_ids of the rows it deleted, and whether no other
\* invocation ran while it did.
IdleInvocation ==
    [pc |-> "idle", message |-> NoMessage, duplicate_rows |-> {},
     wrote |-> 0, deleted |-> <<>>, alone |-> TRUE]

Running(inv) == inv.pc \notin {"idle", "done"}

InitCloud ==
    /\ pc = "cloud"
    /\ invocations = [i \in 1..MaxInvocations |-> IdleInvocation]
    /\ receipts = <<>>
    /\ ledger = <<>> /\ output = EmptySheet
    /\ dev_mode = FALSE /\ all_transactions = <<>> /\ new_rows = <<>>
    /\ failures = 0 /\ consumed = {} /\ all_prod = TRUE /\ run = NoRun
    /\ transactions = <<>> /\ parsed_orders = <<>> /\ match_results = <<>>
    /\ used_emails = {} /\ used_transactions = {} /\ output_rows = <<>>
    /\ first_call = <<>> /\ now = 1
    /\ score_in = <<>> /\ score_out = <<>>

cloudFrame == <<pc, scoreVars, callVars, first_call, now, ledger, output, runVars>>

\* process_single_email is entered with a message; a message that is not
\* from Amazon is skipped.
ProcessSingleEmail(i) ==
    /\ pc = "cloud"
    /\ invocations[i].pc = "idle"
    /\ \E message \in CloudMessages :
          invocations' =
            [k \in DOMAIN invocations |->
               IF k = i
                 THEN [invocations[i] EXCEPT
                         !.pc = IF message.email_type = "" THEN "done"
                                ELSE "check",
                         !.message = message,
                         !.alone = \A n \in DOMAIN invocations \ {i} :
                                      ~Running(invocations[n])]
               ELSE IF Running(invocations[k])
                 THEN [invocations[k] EXCEPT !.alone = FALSE]
               ELSE invocations[k]]
    /\ UNCHANGED <<cloudFrame, receipts>>

\* The dedup check: an email already in the sheet is skipped.
IsEmailProcessed(i) ==
    /\ pc = "cloud"
    /\ invocations[i].pc = "check"
    /\ invocations' =
         [invocations EXCEPT
            ![i].pc = IF is_email_processed(receipts, invocations[i].message.id)
                        THEN "done" ELSE "append"]
    /\ UNCHANGED <<cloudFrame, receipts>>

\* write_to_parsed_orders_sheet: the append.
WriteToParsedOrdersSheet(i) ==
    /\ pc = "cloud"
    /\ invocations[i].pc = "append"
    /\ LET rows == prepared_rows(invocations[i].message)
       IN  /\ receipts' = receipts \o rows
           /\ invocations' = [invocations EXCEPT ![i].pc = "cleanup_read",
                                                 ![i].wrote = Len(rows)]
    /\ UNCHANGED cloudFrame

\* cleanup_duplicate_emails: the read of column A; without duplicates it
\* returns.
CleanupRead(i) ==
    /\ pc = "cloud"
    /\ invocations[i].pc = "cleanup_read"
    /\ LET rows == duplicate_rows(receipts, invocations[i].message.id)
       IN  invocations' =
             [invocations EXCEPT
                ![i].duplicate_rows = rows,
                ![i].pc = IF rows = {} THEN "done" ELSE "cleanup_delete"]
    /\ UNCHANGED <<cloudFrame, receipts>>

\* cleanup_duplicate_emails: the batchUpdate of deleteDimension requests.
CleanupDelete(i) ==
    /\ pc = "cloud"
    /\ invocations[i].pc = "cleanup_delete"
    /\ receipts' = delete_rows(receipts, invocations[i].duplicate_rows, 1)
    /\ invocations' =
         [invocations EXCEPT
            ![i].pc = "done",
            ![i].deleted = removed_ids(receipts, invocations[i].duplicate_rows, 1)]
    /\ UNCHANGED cloudFrame

NextCloud ==
    \E i \in 1..MaxInvocations :
        \/ ProcessSingleEmail(i)
        \/ IsEmailProcessed(i)
        \/ WriteToParsedOrdersSheet(i)
        \/ CleanupRead(i)
        \/ CleanupDelete(i)

SpecCloud == InitCloud /\ [][NextCloud]_vars

---------------------------------------------------------------------------
(* Properties of calculate_confidence_score (SpecScore) *)

ScoreDiff(i) == Abs(score_in[i].trans_amount - score_in[i].order_total)
ScoreDays(i) == score_in[i].date_diff_days

\* C5: an amount difference above 3.00 gives score 0 whatever the date
\* difference, same-day included.
C5_HardCutoff ==
    pc = "score_done" =>
        \A i \in {1, 2} : ScoreDiff(i) > 300 => score_out[i] = 0

C5_Witness ==
    /\ pc = "score_done"
    /\ ScoreDiff(1) > 300 /\ ScoreDays(1) = 0 /\ score_out[1] = 0
    /\ ScoreDiff(2) = 300 /\ ScoreDays(2) = 0 /\ score_out[2] > 0

\* C6: the score is non-increasing in the amount difference for a fixed date
\* difference, and non-increasing in the date difference for a fixed amount
\* difference.
C6_Monotone ==
    pc = "score_done" =>
        /\ (ScoreDays(1) = ScoreDays(2) /\ ScoreDiff(1) <= ScoreDiff(2))
              => score_out[1] >= score_out[2]
        /\ (ScoreDiff(1) = ScoreDiff(2) /\ ScoreDays(1) <= ScoreDays(2))
              => score_out[1] >= score_out[2]

C6_Witness ==
    /\ pc = "score_done"
    /\ ScoreDays(1) = ScoreDays(2) /\ ScoreDiff(1) = 100 /\ ScoreDiff(2) = 101
    /\ score_out[1] > score_out[2]

\* C7: within the tolerance the score is min(A + max(0, 20 - 3*days) + B, 100)
\* with A = 50 below one cent, 30 up to 1.00, 20 otherwise, and B = 10 on the
\* same day; it is an integer in 0..100; an exact amount two days apart
\* gives 64.
C7_ClosedForm ==
    pc = "score_done" =>
        \A i \in {1, 2} :
            /\ score_out[i] \in 0..100
            /\ ScoreDiff(i) <= 300 =>
                 LET A == IF ScoreDiff(i) < 1 THEN 50
                          ELSE IF ScoreDiff(i) <= 100 THEN 30 ELSE 20
                     D == IF 20 - 3 * ScoreDays(i) > 0
                            THEN 20 - 3 * ScoreDays(i) ELSE 0
                     B == IF ScoreDays(i) = 0 THEN 10 ELSE 0
                 IN  score_out[i] = (IF A + D + B < 100 THEN A + D + B ELSE 100)

C7_Witness ==
    /\ pc = "score_done"
    /\ ScoreDiff(1) = 0 /\ ScoreDays(1) = 2 /\ score_out[1] = 64
    /\ ScoreDiff(2) = 300 /\ ScoreDays(2) = 8 /\ score_out[2] = 20

---------------------------------------------------------------------------
(* Properties of one matcher call (SpecMatch) *)

Returned == pc \in {"matched", "generated"}

RowNumbers == {transactions[i].row_number : i \in DOMAIN transactions}
TransOfRow(r) ==
    transactions[CHOOSE i \in DOMAIN transactions : transactions[i].row_number = r]
EmailIdsOf(items) == {items[i].email_id : i \in DOMAIN items}
AssignedRows == {r \in DOMAIN match_results : match_results[r].items # NoItems}
Candidates == ScoreAll(transactions, parsed_orders, 1)
TypesOfEmail(email_id) ==
    {parsed_orders[i].email_type :
        i \in {j \in DOMAIN parsed_orders : parsed_orders[j].email_id = email_id}}

\* C1: in one call no email_id is the matched shipment of two transactions,
\* and no row is assigned more than one shipment.
C1_Uniqueness ==
    Returned =>
        /\ \A r1, r2 \in AssignedRows :
              r1 # r2 => EmailIdsOf(match_results[r1].items)
                           \cap EmailIdsOf(match_results[r2].items) = {}
        /\ \A r \in AssignedRows :
              Cardinality(EmailIdsOf(match_results[r].items)) = 1
        /\ Cardinality(used_emails) = Cardinality(AssignedRows)
        /\ used_transactions = AssignedRows

\* Two transactions that both score 80 against the same email: one takes it.
C1_Witness ==
    /\ pc = "matched"
    /\ \E r1, r2 \in RowNumbers, m1, m2 \in {Candidates[i] : i \in DOMAIN Candidates} :
          /\ r1 # r2 /\ m1.row_num = r1 /\ m2.row_num = r2
          /\ m1.email_id = m2.email_id /\ m1.score = 80 /\ m2.score = 80
          /\ match_results[r1].status = "matched"
          /\ match_results[r2].status = "unmatched"

\* C3: the result has one entry for every input row and for no other id, and
\* a row the greedy phase did not assign has (None, 0, 'unmatched').
C3_OnePerTransaction ==
    Returned =>
        /\ DOMAIN match_results = RowNumbers
        /\ \A r \in RowNumbers \ used_transactions :
              match_results[r] =
                  [items |-> NoItems, score |-> 0, status |-> "unmatched"]

C3_Witness ==
    /\ pc = "matched"
    /\ \E r1, r2 \in RowNumbers :
          /\ r1 \in used_transactions /\ match_results[r1].status = "matched"
          /\ r2 \notin used_transactions /\ match_results[r2].status = "unmatched"

\* C4: an assigned pair has status 'matched' from score 60 and
\* 'low_confidence' from 40 to 59; a candidate below 40 is never assigned, so
\* a transaction or an email with only such candidates stays unclaimed.
C4_Classification ==
    Returned =>
        /\ \A r \in AssignedRows :
              /\ match_results[r].score >= 40
              /\ match_results[r].score >= 60 <=> match_results[r].status = "matched"
              /\ match_results[r].score < 60 <=>
                    match_results[r].status = "low_confidence"
        /\ \A i \in DOMAIN Candidates :
              Candidates[i].score < 40 =>
                 ~ /\ Candidates[i].row_num \in AssignedRows
                   /\ match_results[Candidates[i].row_num].items = Candidates[i].items
        /\ \A r \in RowNumbers :
              (\A i \in DOMAIN Candidates :
                  Candidates[i].row_num = r => Candidates[i].score < 40)
                 => match_results[r].status = "unmatched"
        /\ \A e \in {Candidates[i].email_id : i \in DOMAIN Candidates} :
              (\A i \in DOMAIN Candidates :
                  Candidates[i].email_id = e => Candidates[i].score < 40)
                 => e \notin used_emails

\* One transaction is assigned at score 58 and one at the boundary 60
\* while a candidate with score 38, the only one of its email, is left out.
C4_Witness ==
    /\ pc = "matched"
    /\ \E i \in DOMAIN Candidates :
          /\ Candidates[i].score = 38
          /\ Candidates[i].email_id \notin used_emails
          /\ match_results[Candidates[i].row_num].status = "unmatched"
    /\ \E r \in AssignedRows :
          match_results[r].score = 58 /\ match_results[r].status = "low_confidence"

C4_WitnessBoundary ==
    /\ pc = "matched"
    /\ \E r \in AssignedRows :
          match_results[r].score = 60 /\ match_results[r].status = "matched"

C9_TypeBySign ==
    Returned =>
        \A r \in AssignedRows :
            LET amount == parse_amount(TransOfRow(r).Amount)
                types == UNION {TypesOfEmail(e) :
                                  e \in EmailIdsOf(match_results[r].items)}
            IN  /\ amount > 0 => "return" \in types
                /\ amount < 0 => types \cap {"shipment", "order"} # {}
                /\ amount # 0

\* A credit with a return and a shipment of its total on its day takes the
\* return; a credit with only an order of its total on its day stays unmatched.
C9_Witness ==
    /\ pc = "matched"
    /\ \E r \in RowNumbers :
          /\ parse_amount(TransOfRow(r).Amount) > 0
          /\ match_results[r].status = "unmatched"
          /\ \E i \in DOMAIN parsed_orders :
                /\ parsed_orders[i].email_type \in {"shipment", "order"}
                /\ parsed_orders[i].shipment_total = parse_amount(TransOfRow(r).Amount)
                /\ parsed_orders[i].parsed_date = TransOfRow(r).Date
                /\ parsed_orders[i].email_id \notin used_emails

---------------------------------------------------------------------------
(* Properties of runs of main() (Spec) *)

\* The transactions (ledger rows) an email has been consumed by, over all
\* production appends so far.
ConsumersOf(e) == {p[2] : p \in {q \in consumed : q[1] = e}}

\* No two ledger rows are copies of one transaction.
DistinctTransactions ==
    \A i, j \in DOMAIN ledger :
        (/\ ledger[i].Date = ledger[j].Date
         /\ ledger[i].Description = ledger[j].Description
         /\ ledger[i].Amount = ledger[j].Amount) => i = j

\* C2: over production runs in which no call fails, on a ledger of distinct
\* transactions, a message_id is consumed by at most one transaction: every
\* email_id behind the rows appended to the output store belongs to one
\* source_row over the life of the store.
C2_ConsumedOnce ==
    (all_prod /\ failures = 0 /\ DistinctTransactions) =>
        \A p \in consumed : Cardinality(ConsumersOf(p[1])) <= 1

\* The runs whose rows for a source_row are in the output store.
RunsOf(r) ==
    {output.rows[i].processed_at :
        i \in {j \in DOMAIN output.rows : output.rows[j].source_row = r}}

\* C10: after production runs, the rows of a source_row in the output store
\* come from one run only.
C10_OneRunPerSourceRow ==
    all_prod =>
        \A i \in DOMAIN output.rows :
            Cardinality(RunsOf(output.rows[i].source_row)) <= 1


\* Whether the step sets the processed flag of ledger row i.
FlagWritten(i) ==
    /\ ~flag_is_set(ledger[i].Processed_Flag)
    /\ flag_is_set(ledger'[i].Processed_Flag)

\* C11: a step of a run sets the processed flag of a ledger row only when the
\* row's MatchResult status is 'matched' and write_output has returned
\* without raising in this run; after a failed output write no flag is set.
C11_FlagsAfterWrite ==
    [][\A i \in DOMAIN ledger :
          FlagWritten(i) =>
              /\ i + 1 \in DOMAIN match_results
              /\ match_results[i + 1].status = "matched"
              /\ run.write = "returned"]_vars

\* A production run has flagged its matched row and left the unmatched row
\* of the same run unflagged.
C11_Witness ==
    /\ pc = "finish"
    /\ ~dev_mode
    /\ run.write = "returned"
    /\ \E r \in DOMAIN match_results :
          /\ match_results[r].status = "matched"
          /\ flag_is_set(ledger[r - 1].Processed_Flag)
    /\ \E r \in DOMAIN match_results :
          /\ match_results[r].status = "unmatched"
          /\ ~flag_is_set(ledger[r - 1].Processed_Flag)

\* Whether the step leaves ledger row i alone or only sets the processed
\* flag of a row matched in this run.
RowFrame(i) ==
    \/ ledger'[i] = ledger[i]
    \/ /\ ledger'[i] = [ledger[i] EXCEPT !.Processed_Flag = "TRUE"]
       /\ i + 1 \in DOMAIN match_results
       /\ match_results[i + 1].status = "matched"

LedgerFrame ==
    /\ Len(ledger') = Len(ledger)
    /\ \A i \in DOMAIN ledger : RowFrame(i)

FlaggedRows == {i + 1 : i \in {j \in DOMAIN ledger :
                                  ledger[j].Processed_Flag \in {"TRUE", "1"}}}

SourceRowsOf(rows) == {rows[i].source_row : i \in DOMAIN rows}

\* The rows the run in progress has loaded, matched or emitted.
HandledRows ==
    {all_transactions[i].row_number : i \in DOMAIN all_transactions}
        \cup {transactions[i].row_number : i \in DOMAIN transactions}
        \cup DOMAIN match_results
        \cup SourceRowsOf(output_rows) \cup SourceRowsOf(new_rows)

\* C13: in production mode, while a run is between its load and its flag
\* update, no ledger row whose flag is TRUE or 1 (in particular no row an
\* earlier run flagged) is among the rows it loaded, matched or emits.
C13_FlaggedNotReprocessed ==
    (all_prod /\ pc \notin {"idle", "finish"}) => FlaggedRows \cap HandledRows = {}

\* A later production run is writing the rows of a new transaction while
\* the ledger holds a row an earlier run flagged and a row flagged 1.
C13_Witness ==
    /\ all_prod
    /\ pc = "write_append"
    /\ now > 1
    /\ HandledRows # {}
    /\ \E i \in DOMAIN ledger :
          /\ ledger[i].Processed_Flag = "TRUE"
          /\ i + 1 \in SourceRowsOf(output.rows)
    /\ \E i \in DOMAIN ledger : ledger[i].Processed_Flag = "1"

\* C14: a run that has done all its steps leaves the output store holding
\* rows for every loaded transaction, and a run that returned early or raised
\* leaves the rows of the output store exactly as they were when the run
\* started.
C14_AllOrNothing ==
    /\ pc = "finish" =>
          \A i \in DOMAIN all_transactions :
              all_transactions[i].row_number \in SourceRowsOf(output.rows)
    /\ (pc = "idle" /\ run.outcome \in {"returned", "raised"}) =>
          output.rows = run.output0.rows

\* C15: when a read or write of the ledger, receipt or output store failed
\* during a run, the run ended by raising to its caller.
C15_FailuresSurfaced ==
    (pc = "idle" /\ run.failed) => run.outcome = "raised"

---------------------------------------------------------------------------
(* Properties of load_transactions (SpecLoad) *)

\* The time a Date Added text stands for, in days; 0 for an empty cell.
DateAddedTime(text) ==
    CASE text = "9/30/2024" -> 1
      [] text = "10/1/2024" -> 2
      [] OTHER -> 0

\* The sheet rows load_transactions hands to the deduplication, as row
\* numbers, and the dedup key of a sheet row.
UnflaggedRows ==
    {i + 1 : i \in {j \in DOMAIN ledger :
                       ledger[j].Processed_Flag \notin {"TRUE", "1"}}}

KeyOfRow(r) ==
    <<ledger[r - 1].Date, ledger[r - 1].Amount, ledger[r - 1].Account,
      desc_prefix(ledger[r - 1].Description)>>

GroupOf(r) == {q \in UnflaggedRows : KeyOfRow(q) = KeyOfRow(r)}

KeptRows == {all_transactions[i].row_number : i \in DOMAIN all_transactions}

HasHint(r) == ledger[r - 1].Category_Hint # ""

\* C16: of every group of loaded rows with one dedup key exactly one row is
\* kept; it has a Category Hint if a row of the group has one, and no row of
\* the group that equals it on that has a later Date Added.
C16_KeepsBestOfGroup ==
    pc = "load_done" =>
        \A r \in UnflaggedRows :
            /\ Cardinality(GroupOf(r) \cap KeptRows) = 1
            /\ \A k \in GroupOf(r) \cap KeptRows :
                  /\ (\E q \in GroupOf(r) : HasHint(q)) => HasHint(k)
                  /\ \A q \in GroupOf(r) :
                        HasHint(q) = HasHint(k) =>
                            DateAddedTime(ledger[q - 1].Date_Added)
                                <= DateAddedTime(ledger[k - 1].Date_Added)

\* C17: the list load_transactions returns after the deduplication is in
\* strictly increasing row number.
C17_RowOrder ==
    pc = "load_done" =>
        \A i, j \in DOMAIN all_transactions :
            i < j => all_transactions[i].row_number < all_transactions[j].row_number

\* Rows 2 and 4 form a group whose kept row is row 4, and row 3, of another
\* key, comes before it in the result.
C17_Witness ==
    /\ pc = "load_done"
    /\ Len(ledger) = 3
    /\ UnflaggedRows = {2, 3, 4}
    /\ GroupOf(2) = {2, 4}
    /\ KeptRows = {3, 4}

---------------------------------------------------------------------------
(* Properties of generate_output_rows (SpecGen) *)

\* The output rows of source row r, in order.
RowsFor(r) ==
    LET OfRow(row) == row.source_row = r
    IN  SelectSeq(output_rows, OfRow)

\* The known-pattern rules a description hits.
RuleHits(description) ==
    {i \in DOMAIN AMAZON_KNOWN_PATTERNS :
        IF AMAZON_KNOWN_PATTERNS[i].exact_match
          THEN UpperEq(AMAZON_KNOWN_PATTERNS[i].pattern, description)
          ELSE UpperIn(AMAZON_KNOWN_PATTERNS[i].pattern, description)}

FirstRule(description) ==
    CHOOSE i \in RuleHits(description) : \A j \in RuleHits(description) : i <= j

Eligible(trans) ==
    trans.Account = AMAZON_ACCOUNT /\ is_amazon(trans.Description)

\* C18: every receipt-eligible transaction whose MatchResult is 'unmatched'
\* gets exactly one output row; when its description hits known-pattern
\* rules, the row has the clean name of the first rule hit, match_status
\* 'known_pattern' and the transaction's own category; otherwise it has
\* match_status 'unmatched'.  "Amazon Prime" gives "Amazon Prime -
\* Subscription".
C18_UnmatchedRows ==
    pc = "gen_done" =>
        \A i \in DOMAIN all_transactions :
            LET trans == all_transactions[i]
                r == trans.row_number
                rows == RowsFor(r)
            IN  (r \in DOMAIN match_results
                   /\ match_results[r].status = "unmatched") =>
                /\ Len(rows) = 1
                /\ IF RuleHits(trans.Description) # {}
                     THEN /\ rows[1].Description =
                               AMAZON_KNOWN_PATTERNS[
                                   FirstRule(trans.Description)].clean_name
                          /\ rows[1].match_status = "known_pattern"
                          /\ rows[1].Category = trans.Category
                     ELSE rows[1].match_status = "unmatched"
                /\ trans.Description = "Amazon Prime" =>
                      rows[1].Description = "Amazon Prime - Subscription"

\* An unmatched charge that hits two rules, next to an unmatched charge
\* exactly "Amazon Prime" with a category.
C18_Witness ==
    /\ pc = "gen_done"
    /\ \E i \in DOMAIN all_transactions :
          /\ all_transactions[i].row_number \in DOMAIN match_results
          /\ match_results[all_transactions[i].row_number].status = "unmatched"
          /\ Cardinality(RuleHits(all_transactions[i].Description)) > 1
    /\ \E i \in DOMAIN all_transactions :
          /\ all_transactions[i].Description = "Amazon Prime"
          /\ all_transactions[i].Category # ""
          /\ RowsFor(all_transactions[i].row_number)[1].match_status
                = "known_pattern"

\* C19: every transaction that fails the account/description filter gets
\* exactly one output row, with the transaction's Date, Description,
\* Category, Amount and Account, empty amazon_order_id, match_confidence and
\* match_status, and the transaction's row number as source_row.
C19_PassThrough ==
    pc = "gen_done" =>
        \A i \in DOMAIN all_transactions :
            LET trans == all_transactions[i]
                rows == RowsFor(trans.row_number)
            IN  ~Eligible(trans) =>
                /\ Len(rows) = 1
                /\ RequiredColumns(rows[1]) = RequiredColumns(trans)
                /\ rows[1].amazon_order_id = ""
                /\ rows[1].match_confidence = NoConfidence
                /\ rows[1].match_status = ""
                /\ rows[1].source_row = trans.row_number

\* A charge of another account with an Amazon description and the amount of
\* the shipment passes through next to a matched charge, or alone.
C19_Witness ==
    /\ pc = "gen_done"
    /\ \E i \in DOMAIN all_transactions :
          /\ all_transactions[i].Account # AMAZON_ACCOUNT
          /\ is_amazon(all_transactions[i].Description)
          /\ RowsFor(all_transactions[i].row_number)[1].match_status = ""
    /\ \E i \in DOMAIN all_transactions :
          /\ all_transactions[i].Description = "Whole Foods"
          /\ RowsFor(all_transactions[i].row_number)[1].Category = "Groceries"

\* C20: every transaction whose MatchResult is 'matched' or 'low_confidence'
\* gets exactly one output row per receipt record of the matched email, each
\* with the transaction's row number as source_row, the result's score as
\* match_confidence, its status as match_status and the transaction's
\* description as amazon_order_id.
C20_RowPerItem ==
    pc = "gen_done" =>
        \A i \in DOMAIN all_transactions :
            LET trans == all_transactions[i]
                r == trans.row_number
                rows == RowsFor(r)
            IN  (r \in DOMAIN match_results
                   /\ match_results[r].status \in {"matched", "low_confidence"}) =>
                /\ Len(rows) = Len(match_results[r].items)
                /\ \A k \in DOMAIN rows :
                      /\ rows[k].source_row = r
                      /\ rows[k].match_confidence = match_results[r].score
                      /\ rows[k].match_status = match_results[r].status
                      /\ rows[k].amazon_order_id = trans.Description

---------------------------------------------------------------------------
(* Properties of the greedy walk, under SpecMatch *)

\* Whether row r holds the shipment of candidate m.
Holds(r, m) ==
    /\ r \in AssignedRows
    /\ m.email_id \in EmailIdsOf(match_results[r].items)

CandidateSet == {Candidates[i] : i \in DOMAIN Candidates}

\* C21: after the walk every candidate of score >= 40 that was not assigned
\* is blocked by an assignment of at least its score: its transaction holds
\* some shipment, or its shipment is held by some transaction.
C21_GreedyBlocked ==
    Returned =>
        \A m \in CandidateSet :
            (m.score >= CONFIDENCE_THRESHOLD_LOW /\ ~Holds(m.row_num, m)) =>
                \/ /\ m.row_num \in AssignedRows
                   /\ match_results[m.row_num].score >= m.score
                \/ \E r \in AssignedRows :
                      Holds(r, m) /\ match_results[r].score >= m.score

\* A later transaction of higher score holds the shipment an earlier
\* transaction of lower score was also a candidate for.
C21_Witness ==
    /\ Returned
    /\ \E m1, m2 \in CandidateSet :
          /\ m1.email_id = m2.email_id
          /\ m1.row_num < m2.row_num
          /\ m1.score >= CONFIDENCE_THRESHOLD_LOW
          /\ m1.score < m2.score
          /\ Holds(m2.row_num, m2)
          /\ ~Holds(m1.row_num, m1)

\* Input order of two candidates: the earlier transaction, then 'shipment'
\* before 'order', then the position of the email in the receipt table.
IndexOfRow(r) == CHOOSE i \in DOMAIN transactions : transactions[i].row_number = r
TypeRank(email_id) == IF "order" \in TypesOfEmail(email_id) THEN 2 ELSE 1
TablePos(email_id) ==
    CHOOSE i \in DOMAIN parsed_orders :
        /\ parsed_orders[i].email_id = email_id
        /\ \A j \in 1..(i - 1) : parsed_orders[j].email_id # email_id
DiscoveredBefore(m1, m2) ==
    \/ IndexOfRow(m1.row_num) < IndexOfRow(m2.row_num)
    \/ /\ m1.row_num = m2.row_num
       /\ \/ TypeRank(m1.email_id) < TypeRank(m2.email_id)
          \/ /\ TypeRank(m1.email_id) = TypeRank(m2.email_id)
             /\ TablePos(m1.email_id) < TablePos(m2.email_id)

Competing(m1, m2) ==
    /\ m1 # m2
    /\ m1.score = m2.score
    /\ m1.score >= CONFIDENCE_THRESHOLD_LOW
    /\ m1.row_num = m2.row_num \/ m1.email_id = m2.email_id

\* C22: of two competing candidates of equal score the one later in input
\* order is assigned only where the earlier one was already blocked on its
\* other side; a transaction that lost ends with one of its own candidates of
\* score >= 40, or 'unmatched' with every such candidate's shipment held by
\* another transaction.
C22_TieByInputOrder ==
    Returned =>
        /\ \A m1, m2 \in CandidateSet :
              (Competing(m1, m2) /\ DiscoveredBefore(m1, m2)
                 /\ Holds(m2.row_num, m2)) =>
                 \/ /\ m1.row_num # m2.row_num
                    /\ m1.row_num \in AssignedRows
                    /\ match_results[m1.row_num].score >= m1.score
                 \/ /\ m1.email_id # m2.email_id
                    /\ \E r \in AssignedRows \ {m2.row_num} : Holds(r, m1)
        /\ \A m \in CandidateSet :
              (m.score >= CONFIDENCE_THRESHOLD_LOW /\ ~Holds(m.row_num, m)) =>
                 IF m.row_num \in AssignedRows
                   THEN \E n \in CandidateSet :
                           /\ n.row_num = m.row_num
                           /\ n.score >= CONFIDENCE_THRESHOLD_LOW
                           /\ n.score = match_results[m.row_num].score
                           /\ Holds(m.row_num, n)
                   ELSE /\ match_results[m.row_num].status = "unmatched"
                        /\ \E r \in AssignedRows \ {m.row_num} : Holds(r, m)

\* Two transactions tie for one shipment: the earlier holds it and the later
\* one fell through to a lower candidate of its own.
C22_Witness ==
    /\ Returned
    /\ \E m1, m2 \in CandidateSet :
          /\ Competing(m1, m2)
          /\ m1.email_id = m2.email_id
          /\ DiscoveredBefore(m1, m2)
          /\ Holds(m1.row_num, m1)
          /\ m2.row_num \in AssignedRows
          /\ match_results[m2.row_num].score < m2.score

\* One transaction ties on a 'shipment' email and an 'order' email that comes
\* first in the receipt table: it holds the 'shipment' one.
C22_WitnessTypeOrder ==
    /\ Returned
    /\ \E m1, m2 \in CandidateSet :
          /\ Competing(m1, m2)
          /\ m1.row_num = m2.row_num
          /\ TypeRank(m1.email_id) < TypeRank(m2.email_id)
          /\ TablePos(m2.email_id) < TablePos(m1.email_id)
          /\ Holds(m1.row_num, m1)

\* C23: no candidate and no MatchResult holds a shipment whose shipment_total
\* is missing, zero or not positive.
C23_PositiveTotalOnly ==
    Returned =>
        /\ \A m \in CandidateSet :
              \A k \in DOMAIN m.items : m.items[k].shipment_total > 0
        /\ \A r \in AssignedRows :
              \A k \in DOMAIN match_results[r].items :
                  match_results[r].items[k].shipment_total > 0

\* The part the guard of line 718 does give: a shipment whose total is missing
\* or zero is never a candidate.
C23_NonZeroTotalOnly ==
    Returned =>
        /\ \A m \in CandidateSet :
              \A k \in DOMAIN m.items : m.items[k].shipment_total # 0
        /\ \A r \in AssignedRows :
              \A k \in DOMAIN match_results[r].items :
                  match_results[r].items[k].shipment_total # 0

\* The rows whose date does not parse or whose amount parses to zero.
Unusable(trans) ==
    \/ trans.Date = NoDate
    \/ trans.Amount.num \in {0, BadNum}

\* C25: a transaction whose date does not parse, or whose amount parses to
\* zero (an unparseable amount included), is behind no candidate, claims no
\* shipment and is returned 'unmatched' with score 0 and no items.
C25_UnusableUnmatched ==
    Returned =>
        \A i \in DOMAIN transactions :
            LET trans == transactions[i]
                r == trans.row_number
            IN  Unusable(trans) =>
                /\ \A m \in CandidateSet : m.row_num # r
                /\ r \notin used_transactions
                /\ r \in DOMAIN match_results
                /\ match_results[r] =
                      [items |-> NoItems, score |-> 0, status |-> "unmatched"]

\* A row with an unparseable date and a row with an unparseable amount are
\* returned unmatched although a shipment of the day, of the first row's
\* amount, is in the table and stays unclaimed.
C25_Witness ==
    /\ Returned
    /\ \E i, j \in DOMAIN transactions :
          /\ transactions[i].Date = NoDate
          /\ transactions[i].Amount = Raw("-", 4103)
          /\ transactions[j].Amount.num = BadNum
          /\ match_results[transactions[i].row_number].status = "unmatched"
          /\ match_results[transactions[j].row_number].status = "unmatched"
    /\ \E k \in DOMAIN parsed_orders :
          /\ parsed_orders[k].email_type = "shipment"
          /\ parsed_orders[k].parsed_date = 10
          /\ parsed_orders[k].shipment_total = 4103
    /\ used_emails = {}

---------------------------------------------------------------------------
(* Properties of the receipt date filter and of the output store, under Spec *)

\* What steps 4-6 of main() give when the whole receipt table is loaded
\* (min_date and max_date None).
WholeTable == load_parsed_orders(receipts, {})
WholeTableResults ==
    match_all_transactions_optimally(transactions, WholeTable).match_results
WholeTableRows ==
    generate_output_rows(all_transactions, transactions, WholeTableResults, now)

LoadOrdersStep == pc = "load_orders" /\ failures' = failures

\* C24: the step that loads the date-filtered receipts, matches and generates
\* leaves the MatchResults and the output rows that the whole receipt table
\* would have given.
C24_FilterTransparent ==
    [][(LoadOrdersStep /\ WholeTable # <<>>) =>
          /\ match_results' = WholeTableResults
          /\ output_rows' = WholeTableRows]_vars

\* The same, for the runs in which the filter leaves at least one record.
C24_SameWhenSomeKept ==
    [][(LoadOrdersStep
          /\ load_parsed_orders(receipts, trans_dates(transactions)) # <<>>) =>
          /\ match_results' = WholeTableResults
          /\ output_rows' = WholeTableRows]_vars

IsPrefix(a, b) == Len(a) <= Len(b) /\ \A i \in DOMAIN a : b[i] = a[i]

\* C26: no step of a production run in which no store call has failed removes
\* or overwrites a row already in the output store.
C26_ProductionKeepsRows ==
    [][(pc # "idle" /\ ~dev_mode /\ failures = 0) =>
          IsPrefix(output.rows, output'.rows)]_vars

\* The same for the production runs that found a receipt-eligible transaction.
C26_KeepsRowsWhenEligible ==
    [][(pc # "idle" /\ ~dev_mode /\ transactions # <<>>) =>
          IsPrefix(output.rows, output'.rows)]_vars

---------------------------------------------------------------------------
(* Properties of the deduplication and of the generated rows, under SpecGen *)

\* C27: generate_output_rows returns at least one row for every transaction
\* of all_transactions, whatever its MatchResult and the item names of its
\* shipment.
C27_RowForEveryTransaction ==
    pc = "gen_done" =>
        \A i \in DOMAIN all_transactions :
            RowsFor(all_transactions[i].row_number) # <<>>

\* The same for the transactions whose MatchResult holds no record with an
\* empty item name.
C27_RowWhenItemsNamed ==
    pc = "gen_done" =>
        \A i \in DOMAIN all_transactions :
            LET r == all_transactions[i].row_number
            IN  (r \in DOMAIN match_results =>
                    \A k \in DOMAIN match_results[r].items :
                        match_results[r].items[k].item_name # "")
                => RowsFor(r) # <<>>

\* C28: every loaded receipt-eligible transaction is handed to the matcher and
\* has a MatchResult of its own; two eligible rows that differ in amount are
\* both kept.
C28_EveryEligibleMatched ==
    pc \in {"gen_matched", "gen_done"} =>
        \A i \in DOMAIN all_transactions :
            Eligible(all_transactions[i]) =>
                /\ \E j \in DOMAIN transactions :
                      transactions[j] = all_transactions[i]
                /\ all_transactions[i].row_number \in DOMAIN match_results

\* The same for the eligible rows that share (Date, Description) with no
\* earlier eligible row.
C28_FirstOfKeyMatched ==
    pc \in {"gen_matched", "gen_done"} =>
        \A i \in DOMAIN all_transactions :
            (Eligible(all_transactions[i])
               /\ \A j \in 1..(i - 1) :
                     Eligible(all_transactions[j]) =>
                        \/ all_transactions[j].Date # all_transactions[i].Date
                        \/ all_transactions[j].Description
                              # all_transactions[i].Description) =>
                all_transactions[i].row_number \in DOMAIN match_results

---------------------------------------------------------------------------
(* Properties of the cloud function's sheet writes, under SpecCloud *)

RowsOfEmail(sheet, email_id) ==
    Cardinality({j \in DOMAIN sheet : sheet[j].email_id = email_id})

\* The step in which invocation i returns from write_to_parsed_orders_sheet.
WriteReturns(i) ==
    /\ invocations[i].pc \in {"cleanup_read", "cleanup_delete"}
    /\ invocations'[i].pc = "done"

\* C29: when write_to_parsed_orders_sheet returns in an invocation that ran
\* with no other invocation beside it and appended k rows for its email, the
\* sheet holds exactly k rows of that email_id, and the cleanup deleted none.
C29_WrittenRowsKept ==
    [][\A i \in 1..MaxInvocations :
          (WriteReturns(i) /\ invocations[i].alone) =>
             /\ RowsOfEmail(receipts', invocations[i].message.id)
                   = invocations[i].wrote
             /\ invocations'[i].deleted = <<>>]_vars

\* The same for the emails that expand into one row.
C29_SingleRowKept ==
    [][\A i \in 1..MaxInvocations :
          (WriteReturns(i) /\ invocations[i].alone
             /\ invocations[i].wrote = 1) =>
             /\ RowsOfEmail(receipts', invocations[i].message.id) = 1
             /\ invocations'[i].deleted = <<>>]_vars

\* C30: every row a call of cleanup_duplicate_emails(email_id) has deleted
\* held that email_id.
C30_DeletesOwnEmailOnly ==
    \A i \in 1..MaxInvocations :
        \A n \in DOMAIN invocations[i].deleted :
            invocations[i].deleted[n] = invocations[i].message.id

\* The same for the invocations that ran with no other beside them.
C30_AloneDeletesOwnEmailOnly ==
    \A i \in 1..MaxInvocations :
        invocations[i].alone =>
            \A n \in DOMAIN invocations[i].deleted :
                invocations[i].deleted[n] = invocations[i].message.id

=============================================================================
